---- MODULE Spec2Model ----
(***************************************************************************)
(* Weekly I-MR SPC monitor: the JSON-backed cross-week memory store        *)
(* (memory.py), the last-sigma cache and the accumulation engine           *)
(* run_imr_spc (charts.py), and the risk classification (metrics.py).      *)
(*                                                                         *)
(* Strings are sequences of one-character strings.  A week token           *)
(* "YYYYMMDD-YYYYMMDD" is modelled by its rank in Python's string order    *)
(* (fixed-width digits: string order = chronological order); week tokens   *)
(* are non-empty strings.  Optional values (None | x) are <<>> | <<x>>.    *)
(* Measured values are small integers; float(v) is exact on them.          *)
(*                                                                         *)
(* data is the content of spc_memory.json (every MemoryStore is loaded     *)
(* from it and saved to it), sigma_store the content of                    *)
(* last_sigma_simple.json, cfg the run configuration.  run records what    *)
(* the last run_imr_spc did (tick alternates, so that no run is a          *)
(* stuttering step), call what the last direct MemoryStore call did.       *)
(* batch is the position of run_from_config in its loops, disk the files   *)
(* of _memory_global with the step of a persist in progress (there data    *)
(* is the store in memory), probe one call of the chart metrics, series    *)
(* the weeks a weekly series has run and its deferred runs since a chart.  *)
(*                                                                         *)
(* Specifications: SpecStore (MemoryStore calls), SpecRun (weekly runs of  *)
(* one feature), SpecBatch (run_from_config), SpecSave (persist steps and  *)
(* crashes), SpecLoad (MemoryStore built over any backing file), SpecKeys  *)
(* (several product/feature pairs), SpecMetrics (OOC list, risk class),    *)
(* SpecProgress (one run per week, each for a later week, weekly).         *)
(***************************************************************************)
EXTENDS Integers, Sequences, FiniteSets, TLC

VARIABLES data, sigma_store, cfg, run, call, batch, disk, probe, series

vars == <<data, sigma_store, cfg, run, call, batch, disk, probe, series>>

\* ---------------------------------------------------------------- bounds
\* longest id/value list of one append, and most rows of one source file
MaxLen == 2
\* longest bucket the model lets a key grow to
MaxBucket == 2
\* largest configured threshold
MaxThreshold == 3

\* ---------------------------------------------------------------- domains
None == <<>>
Some(x) == <<x>>

Weeks == {1, 2}
Products == {<<"P">>}
Features == {<<"F">>}
\* first-column ids of the source files: 2 and 10 (as strings, "10" < "2")
FileIds == {2, 10}
Values == {1, 2}

Min(a, b) == IF a <= b THEN a ELSE b
Max(a, b) == IF a >= b THEN a ELSE b

SeqsUpTo(S, n) == UNION {[1..k -> S] : k \in 0..n}

\* ---------------------------------------------------------------- memory.py
\* MemoryStore._key: f"{product}|{feature}"
_key(product, feature) == product \o <<"|">> \o feature

\* int(c) of one decimal digit
DigitVal(c) ==
  CASE c = "0" -> 0 [] c = "1" -> 1 [] c = "2" -> 2 [] c = "3" -> 3 [] c = "4" -> 4
    [] c = "5" -> 5 [] c = "6" -> 6 [] c = "7" -> 7 [] c = "8" -> 8 [] c = "9" -> 9

\* int(r.get("id", 0)) on a string of decimal digits
RECURSIVE IdInt(_)
IdInt(s) ==
  IF s = <<>> THEN 0
  ELSE 10 * IdInt(SubSeq(s, 1, Len(s) - 1)) + DigitVal(s[Len(s)])

\* str(d) of one decimal digit
DigitChar(d) ==
  CASE d = 0 -> "0" [] d = 1 -> "1" [] d = 2 -> "2" [] d = 3 -> "3" [] d = 4 -> "4"
    [] d = 5 -> "5" [] d = 6 -> "6" [] d = 7 -> "7" [] d = 8 -> "8" [] d = 9 -> "9"

\* str(n) of a non-negative integer id
RECURSIVE Str(_)
Str(n) == IF n < 10 THEN <<DigitChar(n)>> ELSE Append(Str(n \div 10), DigitChar(n % 10))

\* the id strings the store is called with
IdStrings == {Str(n) : n \in FileIds}

\* the record add_imr_points appends
Rec(week, id, value) == [type |-> "IMR", week |-> week, id |-> id, value |-> value]

\* Python's < on two strings of decimal digits
RECURSIVE StrLess(_, _)
StrLess(a, b) ==
  IF b = <<>> THEN FALSE
  ELSE IF a = <<>> THEN TRUE
  ELSE IF DigitVal(a[1]) # DigitVal(b[1]) THEN DigitVal(a[1]) < DigitVal(b[1])
  ELSE StrLess(Tail(a), Tail(b))

\* a sort key (type, week, id) that compares the id as a string
KeyLessStringOrder(r1, r2) ==
  \/ r1.week < r2.week
  \/ r1.week = r2.week /\ StrLess(r1.id, r2.id)

\* the sort key (type, week, int(id)) compared as a Python tuple; every
\* record the store writes has type "IMR", so the first component ties
KeyLess(r1, r2) ==
  \/ r1.week < r2.week
  \/ r1.week = r2.week /\ IdInt(r1.id) < IdInt(r2.id)

\* insertion of r after every element whose key is <= r's key (stable)
RECURSIVE InsertStable(_, _)
InsertStable(sorted, r) ==
  IF sorted = <<>> THEN <<r>>
  ELSE IF KeyLess(r, sorted[Len(sorted)])
       THEN Append(InsertStable(SubSeq(sorted, 1, Len(sorted) - 1), r), sorted[Len(sorted)])
       ELSE Append(sorted, r)

\* bucket.sort(key=...): Python's list.sort is stable
RECURSIVE SortBucket(_)
SortBucket(bucket) ==
  IF bucket = <<>> THEN <<>>
  ELSE InsertStable(SortBucket(SubSeq(bucket, 1, Len(bucket) - 1)), bucket[Len(bucket)])

\* self.data.get(key, [])
GetBucket(d, key) == IF key \in DOMAIN d THEN d[key] ELSE <<>>

\* seen = {(week, str(id)) for r in bucket if type == "IMR"}, built once
\* before the loop and not updated inside it
SeenTags(bucket) ==
  {<<bucket[i].week, bucket[i].id>> : i \in {j \in 1..Len(bucket) : bucket[j].type = "IMR"}}

\* an append loop that never consults seen
AppendNewNoDedup(bucket, seen, week, ids, values, i) ==
  bucket \o [k \in 1..Min(Len(ids), Len(values)) |-> Rec(week, ids[k], values[k])]

\* the loop over zip(ids, values): zip stops at the shorter list
RECURSIVE AppendNew(_, _, _, _, _, _)
AppendNew(bucket, seen, week, ids, values, i) ==
  IF i > Min(Len(ids), Len(values)) THEN bucket
  ELSE AppendNew(
         IF <<week, ids[i]>> \notin seen
           THEN Append(bucket, Rec(week, ids[i], values[i]))
           ELSE bucket,
         seen, week, ids, values, i + 1)

\* an add_imr_points that sorts and saves but appends nothing
add_imr_points_lost(d, product, feature, week, ids, values) ==
  [k \in DOMAIN d \cup {_key(product, feature)} |-> GetBucket(d, k)]

\* add_imr_points: the new content of self.data (then saved)
add_imr_points(d, product, feature, week, ids, values) ==
  LET key == _key(product, feature)
      bucket == GetBucket(d, key)
      grown == AppendNew(bucket, SeenTags(bucket), week, ids, values, 1)
  IN  [k \in DOMAIN d \cup {key} |-> IF k = key THEN SortBucket(grown) ELSE d[k]]

\* the loop of take_imr_until from position i on: appends, then tests
\* len(vals) >= need and breaks
RECURSIVE TakeLoop(_, _, _, _, _, _)
TakeLoop(bucket, i, need, exclude_week, weeks, vals) ==
  IF i > Len(bucket) THEN [weeks |-> weeks, vals |-> vals]
  ELSE LET r == bucket[i] IN
    IF r.type # "IMR" THEN TakeLoop(bucket, i + 1, need, exclude_week, weeks, vals)
    ELSE IF exclude_week # None /\ r.week = exclude_week[1]
      THEN TakeLoop(bucket, i + 1, need, exclude_week, weeks, vals)
    ELSE LET w2 == Append(weeks, r.week)
             v2 == Append(vals, r.value)
         IN IF need # None /\ Len(v2) >= need[1]
            THEN [weeks |-> w2, vals |-> v2]
            ELSE TakeLoop(bucket, i + 1, need, exclude_week, w2, v2)

\* a take that does not leave out the excluded week
take_imr_until_no_exclude(d, product, feature, need, exclude_week) ==
  TakeLoop(GetBucket(d, _key(product, feature)), 1, need, None, <<>>, <<>>)

\* take_imr_until: (weeks_used_in_order, values_oldest_first)
take_imr_until(d, product, feature, need, exclude_week) ==
  TakeLoop(GetBucket(d, _key(product, feature)), 1, need, exclude_week, <<>>, <<>>)

\* a clear_feature that leaves the bucket in place
clear_feature_kept(d, product, feature) == d

\* clear_feature: the new content of self.data
clear_feature(d, product, feature) ==
  LET key == _key(product, feature)
  IN  IF key \in DOMAIN d THEN [k \in DOMAIN d \ {key} |-> d[k]] ELSE d

\* ---------------------------------------------------------------- metrics.py
Inf == [inf |-> TRUE, milli |-> 0]
Finite(m) == [inf |-> FALSE, milli |-> m]

\* classes whose upper bounds are inclusive
sigma_to_risk_upper_inclusive(sigma) ==
  IF sigma.inf THEN "N/A"
  ELSE IF sigma.milli <= 3000 THEN "High risk"
  ELSE IF sigma.milli <= 4000 THEN "Poor"
  ELSE IF sigma.milli <= 4500 THEN "Moderate"
  ELSE IF sigma.milli <= 5000 THEN "Acceptable"
  ELSE IF sigma.milli <= 6000 THEN "Good"
  ELSE "Excellent"

\* sigma_to_risk; a sigma level is +infinity or a multiple of 0.001
sigma_to_risk(sigma) ==
  IF sigma.inf THEN "N/A"
  ELSE IF sigma.milli < 3000 THEN "High risk"
  ELSE IF sigma.milli < 4000 THEN "Poor"
  ELSE IF sigma.milli < 4500 THEN "Moderate"
  ELSE IF sigma.milli < 5000 THEN "Acceptable"
  ELSE IF sigma.milli < 6000 THEN "Good"
  ELSE "Excellent"

\* ---------------------------------------------------------------- charts.py
\* _load_last_sigma: data.get(f"{product}|{feature}"), None without a file
_load_last_sigma(store, product, feature) ==
  LET key == product \o <<"|">> \o feature
  IN  IF key \in DOMAIN store THEN Some(store[key]) ELSE None

\* a run that skips the write of line 212
_save_last_sigma_skipped(store, product, feature, sigma) == store

\* _save_last_sigma: the new content of last_sigma_simple.json
_save_last_sigma(store, product, feature, sigma) ==
  LET key == product \o <<"|">> \o feature
  IN  [k \in DOMAIN store \cup {key} |-> IF k = key THEN sigma ELSE store[k]]

RECURSIVE SumSeq(_)
SumSeq(s) == IF s = <<>> THEN 0 ELSE s[1] + SumSeq(Tail(s))

RECURSIVE SumSq(_)
SumSq(s) == IF s = <<>> THEN 0 ELSE s[1] * s[1] + SumSq(Tail(s))

\* the largest r in lo..hi with r * r <= q
RECURSIVE ISqrt(_, _, _)
ISqrt(q, lo, hi) ==
  IF lo >= hi THEN lo
  ELSE LET mid == (lo + hi + 1) \div 2
       IN  IF mid * mid <= q THEN ISqrt(q, mid, hi) ELSE ISqrt(q, lo, mid - 1)

\* sigma_level = round(cpk * 3, 3) with cpk = min(usl - mean, mean - lsl) / (3 std)
\* and std the sample standard deviation (ddof = 1), in units of 0.001:
\* with n values of sum S, Q = n * sum(x^2) - S^2 and D = min(n usl - S, S - n lsl),
\* 3 cpk = sign(D) * sqrt(D^2 (n - 1) / (n Q)).  std is nan for n = 1 and 0 for
\* Q = 0; in both cases "std > 0" is false and the level is +infinity.
SigmaLevel(vals, usl, lsl) ==
  LET n == Len(vals)
      S == SumSeq(vals)
      Q == n * SumSq(vals) - S * S
  IN  IF n < 2 \/ Q = 0 THEN Inf
      ELSE LET D == Min(n * usl - S, S - n * lsl)
               A == D * D * (n - 1)
               B == n * Q
               q1 == (1000 * A) \div B
               r1 == (1000 * A) % B
               W == 1000 * q1 + (1000 * r1) \div B
               rem == (1000 * r1) % B
               f == ISqrt(W, 0, 46340)
               m == IF W > f * f + f \/ (W = f * f + f /\ 4 * rem >= B) THEN f + 1 ELSE f
           IN  Finite(IF D < 0 THEN 0 - m ELSE m)

\* a mask that also flags the values on a limit
OocIdsInclusive(vals, ucl, lcl) ==
  LET RECURSIVE Asc(_)
      Asc(i) == IF i > Len(vals) THEN <<>>
                ELSE IF vals[i] >= ucl \/ vals[i] <= lcl THEN <<i>> \o Asc(i + 1)
                ELSE Asc(i + 1)
  IN  Asc(1)

\* ooc_ids: 1-indexed positions with value > ucl or value < lcl
OocIds(vals, ucl, lcl) ==
  LET flagged == {i \in 1..Len(vals) : vals[i] > ucl \/ vals[i] < lcl}
      RECURSIVE Asc(_)
      Asc(i) == IF i > Len(vals) THEN <<>>
                ELSE IF i \in flagged THEN <<i>> \o Asc(i + 1) ELSE Asc(i + 1)
  IN  Asc(1)

\* a need that ignores the strategy and always takes everything
NeedAlwaysAll(history_strategy, threshold, cur_n) == None

\* a need that ignores the strategy and always fills to the threshold
NeedAlwaysFill(history_strategy, threshold, cur_n) == Some(Max(threshold - cur_n, 0))

\* need = None if history_strategy != "fill_to_threshold" else max(threshold - len(cur_vals), 0)
NeedFor(history_strategy, threshold, cur_n) ==
  IF history_strategy # "fill_to_threshold" THEN None ELSE Some(Max(threshold - cur_n, 0))

\* a combination that puts the current week first
CombinedCurrentFirst(hist_vals, cur_vals) == cur_vals \o hist_vals

\* combined_vals = hist_vals + cur_vals
Combined(hist_vals, cur_vals) == hist_vals \o cur_vals

NoRun ==
  [tick |-> 0, outcome |-> "none", product |-> <<>>, feature |-> <<>>, week |-> 0,
   threshold |-> 0, history_strategy |-> "", cur_ids |-> <<>>, cur_vals |-> <<>>,
   consulted |-> FALSE, need |-> None, exclude_week |-> None,
   hist_weeks |-> <<>>, hist_vals |-> <<>>, chart_vals |-> <<>>,
   lsl |-> 0, usl |-> 0, lcl |-> 0, ucl |-> 0,
   last_sigma |-> None, sigma_level |-> None, risk_level |-> "", ooc_ids |-> <<>>,
   rerun |-> FALSE]

\* ---------------------------------------------------------------- state
EmptyStore == [k \in {} |-> <<>>]

NoCall ==
  [op |-> "none", product |-> <<>>, feature |-> <<>>, week |-> 0,
   ids |-> <<>>, need |-> None, exclude_week |-> None,
   repeat |-> FALSE, value_conflict |-> FALSE, existed |-> FALSE, raised |-> FALSE,
   weeks_out |-> <<>>, vals_out |-> <<>>]

\* run_from_config before it is called: the week argument, the position in
\* the products/features loops and the outcome of each feature processed
NoBatch == [week |-> 0, pos |-> 0, outcomes |-> <<>>]

\* the files of _memory_global and a persist in progress
NoDisk == [fs |-> EmptyStore, pc |-> "idle", path |-> <<>>, new |-> <<>>,
           old |-> None, denied |-> FALSE, data_type |-> "dict"]

\* the arguments and the result of one call of a pure function
NoProbe == [fn |-> "none", vals |-> <<>>, lcl |-> 0, ucl |-> 0, sigma |-> Inf,
            usl |-> 0, lsl |-> 0, applied |-> FALSE, ooc_ids |-> <<>>, risk_level |-> ""]

\* a series of weekly runs of one key before its first run: the weeks run
\* so far and the number of deferred runs since the last chart
NoSeries == [weeks |-> {}, deferred |-> 0]

\* a fresh result root: no spc_memory.json, no last_sigma_simple.json; the
\* configuration is the defaults of run_imr_spc
Init ==
  /\ data = EmptyStore
  /\ sigma_store = EmptyStore
  /\ cfg = [threshold |-> 20, history_strategy |-> "all"]
  /\ run = NoRun
  /\ call = NoCall
  /\ batch = NoBatch
  /\ disk = NoDisk
  /\ probe = NoProbe
  /\ series = NoSeries

\* ---------------------------------------------------------------- store operations
\* observation only: some (id, value) of the call is already stored for that
\* week with another value
ValueConflict(bucket, week, ids, values) ==
  \E i \in 1..Min(Len(ids), Len(values)), j \in 1..Len(bucket) :
    /\ bucket[j].week = week /\ bucket[j].id = ids[i] /\ bucket[j].value # values[i]

AddImrPoints(product, feature, week, ids, values) ==
  LET key == _key(product, feature)
      d2 == add_imr_points(data, product, feature, week, ids, values)
  IN  /\ Len(d2[key]) <= MaxBucket
      /\ data' = d2
      /\ call' = [NoCall EXCEPT !.op = "add", !.product = product, !.feature = feature,
                    !.week = week, !.ids = ids,
                    !.repeat = /\ call.op = "add"
                               /\ call.product = product /\ call.feature = feature
                               /\ call.week = week /\ call.ids = ids,
                    !.value_conflict = ValueConflict(GetBucket(data, key), week, ids, values)]
      /\ UNCHANGED <<sigma_store, cfg, run, batch, disk, probe, series>>

TakeImrUntil(product, feature, need, exclude_week) ==
  LET got == take_imr_until(data, product, feature, need, exclude_week)
  IN  /\ call' = [NoCall EXCEPT !.op = "take", !.product = product, !.feature = feature,
                    !.need = need, !.exclude_week = exclude_week,
                    !.weeks_out = got.weeks, !.vals_out = got.vals]
      /\ UNCHANGED <<data, sigma_store, cfg, run, batch, disk, probe, series>>

ClearFeature(product, feature) ==
  /\ data' = clear_feature(data, product, feature)
  /\ call' = [NoCall EXCEPT !.op = "clear", !.product = product, !.feature = feature,
                !.existed = _key(product, feature) \in DOMAIN data]
  /\ UNCHANGED <<sigma_store, cfg, run, batch, disk, probe, series>>

NextStore ==
  \/ \E p \in Products, f \in Features, w \in Weeks, ids \in SeqsUpTo(IdStrings, MaxLen) :
       \E values \in [1..Len(ids) -> Values] : AddImrPoints(p, f, w, ids, values)
  \/ \E p \in Products, f \in Features,
        need \in {None} \cup {Some(k) : k \in 0..MaxBucket},
        ex \in {None} \cup {Some(w) : w \in Weeks} : TakeImrUntil(p, f, need, ex)
  \/ \E p \in Products, f \in Features : ClearFeature(p, f)

SpecStore == Init /\ [][NextStore]_vars

\* ---------------------------------------------------------------- run_imr_spc
\* one source spreadsheet: rows <<id, value>> from the first two columns (at
\* least one row: the limits are read from row 0) and the limit cells of row 0
FileRowKinds == {<<2, 1>>, <<10, 2>>}
FileRows == UNION {[1..k -> FileRowKinds] : k \in 1..MaxLen}
FileLimits == {[lsl |-> 3, usl |-> 0, lcl |-> 1, ucl |-> 1]}
Strategies == {"all", "fill_to_threshold"}

\* lines 141-215: compute the metrics, render, save the sigma, clear the memory
Ready(base, combined_vals, lims) ==
  LET lsl == Min(lims.lsl, lims.usl)
      usl == Max(lims.lsl, lims.usl)
      lcl == Min(lims.lcl, lims.ucl)
      ucl == Max(lims.lcl, lims.ucl)
      sigma_level == SigmaLevel(combined_vals, usl, lsl)
  IN  /\ run' = [base EXCEPT !.outcome = "chart", !.chart_vals = combined_vals,
                   !.lsl = lsl, !.usl = usl, !.lcl = lcl, !.ucl = ucl,
                   !.sigma_level = Some(sigma_level),
                   !.risk_level = sigma_to_risk(sigma_level),
                   !.ooc_ids = OocIds(combined_vals, ucl, lcl)]
      /\ sigma_store' = _save_last_sigma(sigma_store, base.product, base.feature, sigma_level)
      /\ data' = clear_feature(data, base.product, base.feature)

\* lines 129-139: persist the current week and report, no chart
Deferred(base, ids) ==
  LET d2 == add_imr_points(data, base.product, base.feature, base.week, ids, base.cur_vals)
  IN  /\ Len(d2[_key(base.product, base.feature)]) <= MaxBucket
      /\ data' = d2
      /\ run' = [base EXCEPT !.outcome = "deferred"]
      /\ UNCHANGED sigma_store

RunImrSpc(file_path_exists, product_name, display_name, week, rows, lims) ==
  IF ~file_path_exists
  THEN /\ run' = [NoRun EXCEPT !.tick = 1 - run.tick, !.outcome = "nodata",
                    !.feature = display_name]
       /\ UNCHANGED <<data, sigma_store>>
  ELSE
    LET threshold == cfg.threshold
        history_strategy == cfg.history_strategy
        product == IF product_name = <<>> THEN <<"P", "r", "o", "d", "u", "c", "t">>
                   ELSE product_name
        feature == display_name
        cur_vals == [i \in 1..Len(rows) |-> rows[i][2]]
        ids == [i \in 1..Len(rows) |-> Str(rows[i][1])]
        base == [NoRun EXCEPT !.tick = 1 - run.tick, !.product = product,
                   !.feature = feature, !.week = week, !.threshold = threshold,
                   !.history_strategy = history_strategy,
                   !.cur_ids = ids, !.cur_vals = cur_vals,
                   !.last_sigma = _load_last_sigma(sigma_store, product, feature),
                   !.rerun = /\ run.outcome = "deferred"
                             /\ run.product = product /\ run.feature = feature
                             /\ run.week = week
                             /\ run.cur_ids = ids /\ run.cur_vals = cur_vals]
    IN  IF Len(cur_vals) < threshold
        THEN LET need == NeedFor(history_strategy, threshold, Len(cur_vals))
                 got == take_imr_until(data, product, feature, need, Some(week))
                 combined_vals == Combined(got.vals, cur_vals)
                 used == [base EXCEPT !.consulted = TRUE, !.need = need,
                            !.exclude_week = Some(week),
                            !.hist_weeks = got.weeks, !.hist_vals = got.vals]
             IN  IF Len(combined_vals) < threshold
                 THEN Deferred(used, ids)
                 ELSE Ready(used, combined_vals, lims)
        ELSE Ready(base, cur_vals, lims)

\* one configuration (threshold, history_strategy) for all the weekly runs
InitRun ==
  /\ data = EmptyStore
  /\ sigma_store = EmptyStore
  /\ cfg \in [threshold : 1..MaxThreshold, history_strategy : Strategies]
  /\ run = NoRun
  /\ call = NoCall
  /\ batch = NoBatch
  /\ disk = NoDisk
  /\ probe = NoProbe
  /\ series = NoSeries

\* a feature whose source file is missing
RunMissing ==
  \E p \in Products, f \in Features, w \in Weeks :
    /\ RunImrSpc(FALSE, p, f, w, <<>>, CHOOSE l \in FileLimits : TRUE)
    /\ UNCHANGED <<cfg, call, batch, disk, probe, series>>

\* a feature whose source file exists
RunPresent ==
  \E p \in Products, f \in Features, w \in Weeks, rows \in FileRows, lims \in FileLimits :
    /\ RunImrSpc(TRUE, p, f, w, rows, lims)
    /\ UNCHANGED <<cfg, call, batch, disk, probe, series>>

NextRun == RunMissing \/ RunPresent

SpecRun == InitRun /\ [][NextRun]_vars

\* ---------------------------------------------------------------- properties
\* the bucket of the key the last store call or run was about
CallBucket == GetBucket(data, _key(call.product, call.feature))
RunKey == _key(run.product, run.feature)
RunBucket == GetBucket(data, RunKey)

\* the observations of a bucket whose week differs from exclude_week, in stored order
Eligible(bucket, exclude_week) ==
  SelectSeq(bucket, LAMBDA r : exclude_week = None \/ r.week # exclude_week[1])

ValuesOf(records) == [i \in 1..Len(records) |-> records[i].value]
WeeksOf(records) == [i \in 1..Len(records) |-> records[i].week]
FirstN(s, n) == SubSeq(s, 1, Min(n, Len(s)))

\* C7: after any sequence of appends, also with an id repeated within one
\* call, no two observations of a bucket share the same (week, id) pair.
C7_NoDuplicateTags ==
  \A k \in DOMAIN data : \A i, j \in 1..Len(data[k]) :
    i < j => <<data[k][i].week, data[k][i].id>> # <<data[k][j].week, data[k][j].id>>

\* C8: after any sequence of appends, in any insertion order, each bucket is
\* non-decreasing by week and, within a week, by the numeric value of the id
\* (id "2" never follows id "10" of the same week).
C8_BucketOrdered ==
  \A k \in DOMAIN data : \A i, j \in 1..Len(data[k]) :
    i < j =>
      /\ data[k][i].week <= data[k][j].week
      /\ data[k][i].week = data[k][j].week => IdInt(data[k][i].id) <= IdInt(data[k][j].id)
      /\ ~(data[k][i].week = data[k][j].week
           /\ data[k][i].id = <<"1", "0">> /\ data[k][j].id = <<"2">>)

\* an append that supplied id "10" before id "2" has left them stored as 2, 10
C8_Witness ==
  /\ call.op = "add" /\ call.ids = <<<<"1", "0">>, <<"2">>>>
  /\ Len(CallBucket) = 2
  /\ CallBucket[1].id = <<"2">> /\ CallBucket[2].id = <<"1", "0">>
  /\ CallBucket[1].week = CallBucket[2].week

\* C9: an append that repeats the previous append's (product, feature, week,
\* ids), with the same or with other values, leaves the store exactly as the
\* first one left it; and any append keeps every stored observation of an
\* already stored (week, id) with its stored value.
C9_AppendIdempotent ==
  [][call'.op = "add" =>
       /\ call'.repeat => data' = data
       /\ LET old == GetBucket(data, _key(call'.product, call'.feature))
              new == GetBucket(data', _key(call'.product, call'.feature))
          IN  \A t \in SeenTags(old) :
                SelectSeq(new, LAMBDA r : <<r.week, r.id>> = t)
                  = SelectSeq(old, LAMBDA r : <<r.week, r.id>> = t)]_vars

\* a second identical append has supplied another value for a stored (week, id)
C9_Witness ==
  /\ call.op = "add" /\ call.repeat /\ call.value_conflict
  /\ call.ids # <<>> /\ CallBucket # <<>>

\* C10: take_until with need = k >= 0 returns exactly the first min(k, e) of
\* the e observations whose week differs from exclude_week (none for k = 0),
\* all e of them for need = None, and weeks aligned with values.
C10_TakeFirstK ==
  call.op = "take" =>
    LET elig == Eligible(CallBucket, call.exclude_week)
        want == IF call.need = None THEN elig ELSE FirstN(elig, call.need[1])
    IN  /\ call.vals_out = ValuesOf(want)
        /\ call.weeks_out = WeeksOf(want)

\* the bucket of the key of the run that ends in the primed state, before it
PreBucket == GetBucket(data, _key(run'.product, run'.feature))
PostBucket == GetBucket(data', _key(run'.product, run'.feature))
\* its observations of other weeks than the run's week
PreHistory == Eligible(PreBucket, Some(run'.week))

IsNonDecreasing(s) == \A i, j \in 1..Len(s) : i < j => s[i] <= s[j]
Distinct(s) == \A i, j \in 1..Len(s) : i < j => s[i] # s[j]

\* C1: under strategy "all", a run with cur_n < T requests all stored history
\* of the key except the current week (need = None, exclude_week = week) and
\* defers iff history_count + cur_n < T.
C1_AllStrategy ==
  [][(/\ run'.outcome \in {"deferred", "chart"}
      /\ run'.history_strategy = "all"
      /\ Len(run'.cur_vals) < run'.threshold)
     => /\ run'.consulted
        /\ run'.need = None
        /\ run'.exclude_week = Some(run'.week)
        /\ run'.hist_vals = ValuesOf(PreHistory)
        /\ run'.outcome = "deferred"
             <=> Len(PreHistory) + Len(run'.cur_vals) < run'.threshold]_vars

\* a chart made under "all" from more history than the threshold asked for
C1_Witness ==
  /\ run.outcome = "chart" /\ run.history_strategy = "all" /\ run.consulted
  /\ run.need = None /\ Len(run.hist_vals) >= 2
  /\ Len(run.chart_vals) > run.threshold

\* C2: under strategy "fill_to_threshold", a run with cur_n < T requests at
\* most T - cur_n historical points, the oldest of other weeks, defers iff
\* fewer than T - cur_n exist, and charts exactly T values otherwise.
C2_FillStrategy ==
  [][(/\ run'.outcome \in {"deferred", "chart"}
      /\ run'.history_strategy = "fill_to_threshold"
      /\ Len(run'.cur_vals) < run'.threshold)
     => LET k == run'.threshold - Len(run'.cur_vals)
        IN  /\ run'.consulted
            /\ run'.need = Some(k)
            /\ run'.exclude_week = Some(run'.week)
            /\ Len(run'.hist_vals) <= k
            /\ run'.hist_vals = ValuesOf(FirstN(PreHistory, k))
            /\ run'.outcome = "deferred" <=> Len(PreHistory) < k
            /\ run'.outcome = "chart" => Len(run'.chart_vals) = run'.threshold]_vars

\* a chart made under "fill_to_threshold" from two historical points and one current
C2_Witness ==
  /\ run.outcome = "chart" /\ run.history_strategy = "fill_to_threshold"
  /\ run.consulted /\ run.need = Some(2) /\ Len(run.hist_vals) = 2
  /\ Len(run.chart_vals) = run.threshold

\* C3: the chart input is exactly the current values when cur_n >= T (no
\* take_until, no historical value); when cur_n < T it is the retrieved
\* history, oldest first, followed by the current values in file order.
C3_ChartInput ==
  run.outcome = "chart" =>
    IF Len(run.cur_vals) >= run.threshold
    THEN /\ ~run.consulted
         /\ run.hist_vals = <<>> /\ run.hist_weeks = <<>>
         /\ run.chart_vals = run.cur_vals
    ELSE /\ run.consulted
         /\ IsNonDecreasing(run.hist_weeks)
         /\ Len(run.hist_weeks) = Len(run.hist_vals)
         /\ Len(run.chart_vals) = Len(run.hist_vals) + Len(run.cur_vals)
         /\ \A i \in 1..Len(run.hist_vals) : run.chart_vals[i] = run.hist_vals[i]
         /\ \A i \in 1..Len(run.cur_vals) :
              run.chart_vals[Len(run.hist_vals) + i] = run.cur_vals[i]

\* a chart whose input would differ had the current week been put first
C3_Witness ==
  /\ run.outcome = "chart" /\ run.consulted /\ run.hist_vals # <<>>
  /\ run.hist_vals \o run.cur_vals # run.cur_vals \o run.hist_vals
  /\ run.chart_vals = run.hist_vals \o run.cur_vals

\* C4: a deferring run stores the current week's (id, value) pairs in the
\* key's bucket, produces no chart and leaves the sigma cache alone; when the
\* bucket held h observations, all of other weeks, and the current ids are
\* pairwise distinct, the bucket afterwards holds exactly h + cur_n
\* observations, the h old ones and the cur_n current ones.
C4_DeferredPersists ==
  [][run'.outcome = "deferred" =>
       /\ sigma_store' = sigma_store
       /\ run'.chart_vals = <<>> /\ run'.sigma_level = None
       /\ Len(run'.hist_vals) + Len(run'.cur_vals) < run'.threshold
       /\ \A i \in 1..Len(run'.cur_ids) :
            <<run'.week, run'.cur_ids[i]>> \in SeenTags(PostBucket)
       /\ Eligible(PostBucket, Some(run'.week)) = PreHistory
       /\ (Len(PreHistory) = Len(PreBucket) /\ Distinct(run'.cur_ids))
            => /\ Len(PostBucket) = Len(PreBucket) + Len(run'.cur_vals)
               /\ \A i \in 1..Len(run'.cur_ids) :
                    \E j \in 1..Len(PostBucket) :
                      PostBucket[j] = Rec(run'.week, run'.cur_ids[i], run'.cur_vals[i])]_vars

\* a deferred run that found history of another week and added its own point
C4_Witness ==
  /\ run.outcome = "deferred" /\ run.hist_vals # <<>> /\ Distinct(run.cur_ids)
  /\ Len(RunBucket) = Len(run.hist_vals) + Len(run.cur_vals)
  /\ \E j \in 1..Len(RunBucket) : RunBucket[j].week = run.week

\* C5: after a run with cur_n < T that reached READY through history, a chart
\* exists from the combined values, the key's bucket is empty (nothing was
\* re-appended) and the sigma cache holds the sigma level just computed.
C5_ReadyClearsAndSaves ==
  (run.outcome = "chart" /\ run.consulted) =>
    /\ Len(run.chart_vals) >= run.threshold
    /\ run.chart_vals = run.hist_vals \o run.cur_vals
    /\ RunKey \notin DOMAIN data
    /\ take_imr_until(data, run.product, run.feature, None, None).vals = <<>>
    /\ run.sigma_level = Some(SigmaLevel(run.chart_vals, run.usl, run.lsl))
    /\ _load_last_sigma(sigma_store, run.product, run.feature) = run.sigma_level

\* a chart from stored history plus current data with a finite sigma level
C5_Witness ==
  /\ run.outcome = "chart" /\ run.consulted /\ run.hist_vals # <<>>
  /\ run.sigma_level # None /\ ~run.sigma_level[1].inf
  /\ RunBucket = <<>>

\* C6: a bucket is deleted only by a READY run that consulted history; a READY
\* run reached with cur_n >= T leaves the key's bucket unchanged.
C6_ClearOnlyWithHistory ==
  [][/\ (\E k \in DOMAIN data : k \notin DOMAIN data')
          => (run'.outcome = "chart" /\ run'.consulted)
     /\ (run'.outcome = "chart" /\ ~run'.consulted) => PostBucket = PreBucket]_vars

\* the needs and excluded weeks a take_until may be called with
TakeNeeds == {None} \cup {Some(k) : k \in 0..MaxBucket}
TakeExcludes == {None} \cup {Some(w) : w \in Weeks}
NoneTaken == [weeks |-> <<>>, vals |-> <<>>]

\* C11: after a clear, whatever was appended before, every take_until for the
\* key returns empty lists (also the take_until call that follows the clear);
\* a clear of a key without a bucket changes nothing, so a second clear is a
\* no-op.
C11_ClearRoundTrip ==
  [][/\ call'.op = "clear" =>
          /\ \A need \in TakeNeeds, ex \in TakeExcludes :
               take_imr_until(data', call'.product, call'.feature, need, ex) = NoneTaken
          /\ _key(call'.product, call'.feature) \notin DOMAIN data => data' = data
          /\ clear_feature(data', call'.product, call'.feature) = data'
     /\ (/\ call.op = "clear" /\ call'.op = "take"
         /\ call'.product = call.product /\ call'.feature = call.feature)
          => call'.vals_out = <<>> /\ call'.weeks_out = <<>>]_vars

\* a clear has removed a bucket that appends had filled
C11_Witness ==
  /\ call.op = "clear" /\ call.existed
  /\ _key(call.product, call.feature) \notin DOMAIN data

\* C12: the sigma cache is written only by a run that produced a chart, and
\* only at that run's key (a deferred run and a run without a source file
\* leave it unchanged); the last sigma a run reads is the entry as it stood
\* before the run, which is the sigma of the most recent earlier charting run
\* for the key, or none while no run has charted; the run's own sigma
\* replaces it only after the read.
C12_LastSigma ==
  [][/\ run'.outcome # "chart" => sigma_store' = sigma_store
     /\ run'.outcome = "chart" =>
          LET key == _key(run'.product, run'.feature)
          IN  /\ DOMAIN sigma_store' = DOMAIN sigma_store \cup {key}
              /\ sigma_store'[key] = run'.sigma_level[1]
              /\ \A k \in DOMAIN sigma_store : k # key => sigma_store'[k] = sigma_store[k]
     /\ run'.outcome \in {"chart", "deferred"} =>
          LET key == _key(run'.product, run'.feature)
          IN  /\ key \in DOMAIN sigma_store => run'.last_sigma = Some(sigma_store[key])
              /\ key \notin DOMAIN sigma_store => run'.last_sigma = None
              /\ (run.outcome = "chart" /\ _key(run.product, run.feature) = key)
                   => run'.last_sigma = run.sigma_level]_vars

\* a charting run has shown an earlier chart's sigma that differs from its own
C12_Witness ==
  /\ run.outcome = "chart"
  /\ run.last_sigma # None
  /\ run.last_sigma # run.sigma_level
  /\ sigma_store[RunKey] = run.sigma_level[1]

\* ---------------------------------------------------------------- run_from_config
\* cfg["products"]: two products, the first with two features
ConfigProducts ==
  << [name |-> <<"P">>, features |-> << [display_name |-> <<"F">>],
                                        [display_name |-> <<"G">>] >>],
     [name |-> <<"Q">>, features |-> << [display_name |-> <<"F">>] >>] >>

\* the (product, feature) pairs in the order the two nested loops visit them
RECURSIVE LoopOrder(_)
LoopOrder(products) ==
  IF products = <<>> THEN <<>>
  ELSE [i \in 1..Len(products[1].features) |->
          [product |-> products[1].name,
           feature |-> products[1].features[i].display_name]]
       \o LoopOrder(Tail(products))

\* the weekly files of a batch hold one row, of id 2
BatchRows == {<< <<2, v>> >> : v \in Values}

\* a run that stops the whole batch when a source file is missing
NextFeatureAbortOnMissing(outcome, pos, n) == IF outcome = "nodata" THEN n + 1 ELSE pos + 1

\* run_imr_spc returns normally in every outcome (the missing file is a
\* print and a return), so the loop goes on with the next feature
NextFeature(outcome, pos, n) == pos + 1

\* run_from_config(week, cfg) is called, for a week later than the last one
StartBatch(week) ==
  /\ batch.pos = 0 \/ batch.pos > Len(LoopOrder(ConfigProducts))
  /\ week > batch.week
  /\ batch' = [week |-> week, pos |-> 1, outcomes |-> <<>>]
  /\ UNCHANGED <<data, sigma_store, cfg, run, call, disk, probe, series>>

\* one iteration of the inner loop: run_imr_spc for the feature at pos
BatchFeature ==
  /\ batch.pos \in 1..Len(LoopOrder(ConfigProducts))
  /\ LET item == LoopOrder(ConfigProducts)[batch.pos]
     IN  \E file_path_exists \in BOOLEAN, rows \in BatchRows, lims \in FileLimits :
           /\ RunImrSpc(file_path_exists, item.product, item.feature, batch.week, rows, lims)
           /\ batch' = [batch EXCEPT
                          !.pos = NextFeature(run'.outcome, batch.pos,
                                              Len(LoopOrder(ConfigProducts))),
                          !.outcomes = Append(@, run'.outcome)]
  /\ UNCHANGED <<cfg, call, disk, probe, series>>

NextBatch == (\E w \in Weeks : StartBatch(w)) \/ BatchFeature

SpecBatch == InitRun /\ [][NextBatch]_vars

\* C13: a run whose source file does not exist ends with the notice as its
\* only effect: the memory store and the sigma cache are unchanged and there
\* is no chart; and the batch goes on: while features remain the next one can
\* be processed, the position moves by one for every outcome, and a finished
\* batch has processed every feature of every product.
C13_MissingFileContinues ==
  /\ [][(run' # run /\ run'.outcome = "nodata") =>
          /\ data' = data /\ sigma_store' = sigma_store
          /\ run'.chart_vals = <<>> /\ run'.sigma_level = None
          /\ batch'.pos = batch.pos + 1]_vars
  /\ [](batch.pos \in 1..Len(LoopOrder(ConfigProducts)) => ENABLED BatchFeature)
  /\ [](/\ batch.pos > 0 => Len(batch.outcomes) = batch.pos - 1
        /\ batch.pos <= Len(LoopOrder(ConfigProducts)) + 1)

\* a batch has run to its end after the source file of its first feature was
\* missing: the later feature of that product and the later product were run
C13_Witness ==
  /\ batch.pos = Len(LoopOrder(ConfigProducts)) + 1
  /\ batch.outcomes[1] = "nodata"
  /\ batch.outcomes[2] \in {"chart", "deferred"}
  /\ batch.outcomes[3] \in {"chart", "deferred"}
  /\ run.product = <<"Q">>

\* ---------------------------------------------------------------- the two JSON files
MemoryPath == <<"spc_memory.json">>
SigmaPath == <<"last_sigma_simple.json">>

\* a writer that opens the target itself
TmpPathInPlace(path) == path

\* tmp = path + ".tmp"
TmpPath(path) == path \o <<".tmp">>

\* JSON text as the sequence of pieces json.dump writes: the opening brace,
\* one piece per key with its value, the closing brace
Piece(t, k, v) == [t |-> t, k |-> k, v |-> v]

RECURSIVE DumpEntries(_, _)
DumpEntries(d, keys) ==
  IF keys = {} THEN <<>>
  ELSE LET k == CHOOSE x \in keys : TRUE
       IN  <<Piece("entry", k, d[k])>> \o DumpEntries(d, keys \ {k})

\* json.dump(self.data, f): the bucket of each key
DumpMemory(d) ==
  <<Piece("{", <<>>, <<>>)>> \o DumpEntries(d, DOMAIN d) \o <<Piece("}", <<>>, <<>>)>>

\* json.dump(data, f) of the sigma cache: the sigma of each key
DumpSigma(store) ==
  DumpMemory([k \in DOMAIN store |-> Some(store[k])])

\* the text is one complete JSON object
IsObjectText(text) ==
  /\ Len(text) >= 2
  /\ text[1].t = "{" /\ text[Len(text)].t = "}"
  /\ \A i \in 2..(Len(text) - 1) : text[i].t = "entry"

\* the keys of a complete JSON object
EntryKeys(text) == {text[i].k : i \in 2..(Len(text) - 1)}

EntryValue(text, k) == text[CHOOSE i \in 2..(Len(text) - 1) : text[i].k = k].v

\* MemoryStore.__init__: the mapping of the file, {} when the file is
\* missing or json.load raises
LoadMemory(fs) ==
  IF MemoryPath \in DOMAIN fs /\ IsObjectText(fs[MemoryPath])
  THEN [k \in EntryKeys(fs[MemoryPath]) |-> EntryValue(fs[MemoryPath], k)]
  ELSE EmptyStore

\* the text is one complete JSON array
IsArrayText(text) ==
  /\ Len(text) >= 2
  /\ text[1].t = "[" /\ text[Len(text)].t = "]"
  /\ \A i \in 2..(Len(text) - 1) : text[i].t = "item"

\* the Python type of self.data after MemoryStore.__init__: json.load returns
\* whatever value the text denotes; a failure of open or of json.load gives {}
LoadedType(fs, denied) ==
  IF MemoryPath \in DOMAIN fs /\ ~denied /\ IsArrayText(fs[MemoryPath])
  THEN "list" ELSE "dict"

\* the mapping _save_last_sigma starts from: the file's, {} on any failure
LoadSigma(fs) ==
  IF SigmaPath \in DOMAIN fs /\ IsObjectText(fs[SigmaPath])
  THEN [k \in EntryKeys(fs[SigmaPath]) |-> EntryValue(fs[SigmaPath], k)[1]]
  ELSE EmptyStore

\* ---------------------------------------------------------------- persisting
\* the sigma levels and the single-id appends the persist steps are run with
SaveSigmas == {Inf, [inf |-> FALSE, milli |-> 2121]}
SaveIds == {<<id>> : id \in IdStrings}

\* open(tmp, "w"): the temporary file is created, or emptied if one was left
BeginSave(path, text) ==
  disk' = [disk EXCEPT
             !.pc = "writing", !.path = path, !.new = text,
             !.old = IF path \in DOMAIN disk.fs THEN Some(disk.fs[path]) ELSE None,
             !.fs = [q \in DOMAIN disk.fs \cup {TmpPath(path)} |->
                       IF q = TmpPath(path) THEN <<>> ELSE disk.fs[q]]]

\* add_imr_points up to the open of _save
SaveAfterAdd(product, feature, week, ids, values) ==
  /\ disk.pc = "idle"
  /\ data' = add_imr_points(data, product, feature, week, ids, values)
  /\ BeginSave(MemoryPath, DumpMemory(data'))
  /\ UNCHANGED <<sigma_store, cfg, run, call, batch, probe, series>>

\* clear_feature of a key that has a bucket, up to the open of _save
SaveAfterClear(product, feature) ==
  /\ disk.pc = "idle"
  /\ _key(product, feature) \in DOMAIN data
  /\ data' = clear_feature(data, product, feature)
  /\ BeginSave(MemoryPath, DumpMemory(data'))
  /\ UNCHANGED <<sigma_store, cfg, run, call, batch, probe, series>>

\* _save_last_sigma up to the open of the temporary file
SaveLastSigma(product, feature, sigma) ==
  /\ disk.pc = "idle"
  /\ BeginSave(SigmaPath,
               DumpSigma(_save_last_sigma(LoadSigma(disk.fs), product, feature, sigma)))
  /\ UNCHANGED <<data, sigma_store, cfg, run, call, batch, probe, series>>

\* json.dump writes the next piece of the text to the open file
WritePiece ==
  /\ disk.pc = "writing"
  /\ LET tmp == TmpPath(disk.path)
         n == Len(disk.fs[tmp])
     IN  /\ n < Len(disk.new)
         /\ disk' = [disk EXCEPT !.fs[tmp] = Append(@, disk.new[n + 1])]
  /\ UNCHANGED <<data, sigma_store, cfg, run, call, batch, probe, series>>

\* the file is closed with the whole text in it; os.replace(tmp, path)
Replace ==
  /\ disk.pc = "writing"
  /\ LET tmp == TmpPath(disk.path)
     IN  /\ Len(disk.fs[tmp]) = Len(disk.new)
         /\ disk' = [disk EXCEPT
                       !.pc = "idle",
                       !.fs = [q \in (DOMAIN disk.fs \ {tmp}) \cup {disk.path} |->
                                 IF q = disk.path THEN disk.fs[tmp] ELSE disk.fs[q]]]
         /\ sigma_store' = LoadSigma(disk'.fs)
  /\ UNCHANGED <<data, cfg, run, call, batch, probe, series>>

\* the process dies during a persist
Crash ==
  /\ disk.pc = "writing"
  /\ disk' = [disk EXCEPT !.pc = "crashed"]
  /\ UNCHANGED <<data, sigma_store, cfg, run, call, batch, probe, series>>

\* the next run builds its MemoryStore from the file
Restart ==
  /\ disk.pc = "crashed"
  /\ data' = LoadMemory(disk.fs)
  /\ disk' = [disk EXCEPT !.pc = "idle", !.data_type = LoadedType(disk.fs, disk.denied)]
  /\ UNCHANGED <<sigma_store, cfg, run, call, batch, probe, series>>

NextSave ==
  \/ \E p \in Products, f \in Features, w \in Weeks, ids \in SaveIds, v \in Values :
       SaveAfterAdd(p, f, w, ids, <<v>>)
  \/ \E p \in Products, f \in Features : SaveAfterClear(p, f)
  \/ \E p \in Products, f \in Features, sigma \in SaveSigmas : SaveLastSigma(p, f, sigma)
  \/ WritePiece
  \/ Replace
  \/ Crash
  \/ Restart

SpecSave == Init /\ [][NextSave]_vars

\* C14: in every reachable state, also while a persist is at any of its steps
\* and after a crash at any of them, each of the two files, if it exists, holds
\* one complete text: during and after an interrupted persist that is the
\* previous text or the new one (no file if there was none before), and once
\* the persist is done or the store is rebuilt the memory in use is what the
\* file holds.
C14_AtomicPersist ==
  /\ \A path \in {MemoryPath, SigmaPath} :
       path \in DOMAIN disk.fs => IsObjectText(disk.fs[path])
  /\ disk.pc # "idle" =>
       IF disk.path \in DOMAIN disk.fs
       THEN \/ disk.old # None /\ disk.fs[disk.path] = disk.old[1]
            \/ disk.fs[disk.path] = disk.new
       ELSE disk.old = None
  /\ disk.pc = "idle" =>
       /\ MemoryPath \in DOMAIN disk.fs => disk.fs[MemoryPath] = DumpMemory(data)
       /\ SigmaPath \in DOMAIN disk.fs => disk.fs[SigmaPath] = DumpSigma(sigma_store)
       /\ data = LoadMemory(disk.fs)

\* a crash has left a half-written temporary file next to the untouched
\* previous file, whose text differs from the one being written
C14_Witness ==
  /\ disk.pc = "crashed"
  /\ disk.old # None /\ disk.old[1] # disk.new
  /\ disk.fs[disk.path] = disk.old[1]
  /\ Len(disk.fs[TmpPath(disk.path)]) \in 1..(Len(disk.new) - 1)

\* ---------------------------------------------------------------- MemoryStore.__init__
\* what spc_memory.json may hold when the store is built: an empty file, a
\* text cut short, a JSON array, a persisted store with one observation
BackingTexts ==
  { <<>>,
    <<Piece("{", <<>>, <<>>)>>,
    <<Piece("[", <<>>, <<>>), Piece("]", <<>>, <<>>)>>,
    DumpMemory([k \in {_key(<<"P">>, <<"F">>)} |-> <<Rec(1, <<"2">>, 1)>>]) }

\* the file is missing, or present with one of the texts, readable or not
InitLoad ==
  /\ data = EmptyStore
  /\ sigma_store = EmptyStore
  /\ cfg = [threshold |-> 20, history_strategy |-> "all"]
  /\ run = NoRun
  /\ call = NoCall
  /\ batch = NoBatch
  /\ probe = NoProbe
  /\ series = NoSeries
  /\ \E fs \in {EmptyStore} \cup {[q \in {MemoryPath} |-> t] : t \in BackingTexts},
        denied \in BOOLEAN :
       /\ denied => MemoryPath \in DOMAIN fs
       /\ disk = [NoDisk EXCEPT !.fs = fs, !.denied = denied, !.pc = "unbuilt"]

\* MemoryStore(json_path)
Construct ==
  /\ disk.pc = "unbuilt"
  /\ data' = IF disk.denied THEN EmptyStore ELSE LoadMemory(disk.fs)
  /\ disk' = [disk EXCEPT !.pc = "idle", !.data_type = LoadedType(disk.fs, disk.denied)]
  /\ call' = [NoCall EXCEPT !.op = "init"]
  /\ UNCHANGED <<sigma_store, cfg, run, batch, probe, series>>

\* a method that calls self.data.setdefault or self.data.get raises
\* AttributeError when self.data is a list
Raises(op, product, feature) ==
  /\ call' = [NoCall EXCEPT !.op = op, !.product = product, !.feature = feature,
                !.raised = TRUE]
  /\ UNCHANGED <<data, sigma_store, cfg, run, batch, disk, probe, series>>

LoadedAdd(product, feature, week, ids, values) ==
  /\ disk.pc = "idle"
  /\ IF disk.data_type = "dict" THEN AddImrPoints(product, feature, week, ids, values)
     ELSE Raises("add", product, feature)

LoadedTake(product, feature, need, exclude_week) ==
  /\ disk.pc = "idle"
  /\ IF disk.data_type = "dict" THEN TakeImrUntil(product, feature, need, exclude_week)
     ELSE Raises("take", product, feature)

\* "k in self.data" is False for a list: no error, nothing deleted
LoadedClear(product, feature) ==
  /\ disk.pc = "idle"
  /\ ClearFeature(product, feature)

NextLoad ==
  \/ Construct
  \/ \E p \in Products, f \in Features, w \in Weeks, ids \in SaveIds, v \in Values :
       LoadedAdd(p, f, w, ids, <<v>>)
  \/ \E p \in Products, f \in Features, need \in TakeNeeds, ex \in TakeExcludes :
       LoadedTake(p, f, need, ex)
  \/ \E p \in Products, f \in Features : LoadedClear(p, f)

SpecLoad == InitLoad /\ [][NextLoad]_vars

\* the backing file the store was built over is not a readable persisted mapping
NotAPersistedMapping ==
  \/ MemoryPath \notin DOMAIN disk.fs
  \/ disk.denied
  \/ ~IsObjectText(disk.fs[MemoryPath])

\* C15: a store built over a missing, unreadable or malformed backing file is
\* an empty store: building it does not fail, it holds no bucket, and no
\* append, take_until or clear on it raises.
C15_MalformedFileIsEmptyStore ==
  (disk.pc = "idle" /\ NotAPersistedMapping) =>
     /\ disk.data_type = "dict"
     /\ call.op = "init" => data = EmptyStore
     /\ ~call.raised

\* ---------------------------------------------------------------- several keys
\* product and feature names, some of them containing the separator
KeyProducts == { <<"a">>, <<"a", "|", "b">> }
KeyFeatures == { <<"c">>, <<"b", "|", "c">> }
KeyPairs == KeyProducts \X KeyFeatures

\* _save_last_sigma(results_dir, product, feature, sigma) called on its own
SetSigma(product, feature, sigma) ==
  /\ sigma_store' = _save_last_sigma(sigma_store, product, feature, sigma)
  /\ call' = [NoCall EXCEPT !.op = "sigma", !.product = product, !.feature = feature]
  /\ UNCHANGED <<data, cfg, run, batch, disk, probe, series>>

NextKeys ==
  \/ \E pf \in KeyPairs, v \in Values : AddImrPoints(pf[1], pf[2], 1, << <<"2">> >>, <<v>>)
  \/ \E pf \in KeyPairs : ClearFeature(pf[1], pf[2])
  \/ \E pf \in KeyPairs, sigma \in SaveSigmas : SetSigma(pf[1], pf[2], sigma)

SpecKeys == Init /\ [][NextKeys]_vars

\* C16: an append, a clear or a sigma-cache set on one (product, feature)
\* pair leaves the bucket, the take_until results and the sigma entry of
\* every other pair as they were, also for names that contain "|".
C16_PairsIndependent ==
  [][call'.op \in {"add", "clear", "sigma"} =>
       \A other \in KeyPairs :
         other # <<call'.product, call'.feature>> =>
           /\ GetBucket(data', _key(other[1], other[2]))
                = GetBucket(data, _key(other[1], other[2]))
           /\ \A need \in TakeNeeds, ex \in TakeExcludes :
                take_imr_until(data', other[1], other[2], need, ex)
                  = take_imr_until(data, other[1], other[2], need, ex)
           /\ _load_last_sigma(sigma_store', other[1], other[2])
                = _load_last_sigma(sigma_store, other[1], other[2])]_vars

\* ---------------------------------------------------------------- metrics of a chart
\* chart values and limit cells for the out-of-control mask
OocValues == 0..3
OocLimits == 1..2

\* sigma levels around every class bound, in thousandths
RiskMillis ==
  {b + d : b \in {3000, 4000, 4500, 5000, 6000}, d \in {-1, 0, 1}} \cup {-1500, 0, 9000}

InitMetrics ==
  /\ data = EmptyStore
  /\ sigma_store = EmptyStore
  /\ cfg = [threshold |-> 20, history_strategy |-> "all"]
  /\ run = NoRun
  /\ call = NoCall
  /\ batch = NoBatch
  /\ disk = NoDisk
  /\ series = NoSeries
  /\ \/ \E vals \in SeqsUpTo(OocValues, MaxLen), lcl \in OocLimits, ucl \in OocLimits :
          probe = [NoProbe EXCEPT !.fn = "ooc", !.vals = vals, !.lcl = lcl, !.ucl = ucl]
     \/ \E sigma \in {Inf} \cup {Finite(m) : m \in RiskMillis} :
          probe = [NoProbe EXCEPT !.fn = "risk", !.sigma = sigma]
     \/ \E vals \in SeqsUpTo(OocValues, MaxLen) \ {<<>>}, lims \in FileLimits :
          probe = [NoProbe EXCEPT !.fn = "metrics", !.vals = vals,
                     !.lsl = lims.lsl, !.usl = lims.usl]

\* lines 96-98 and 160-161: the limits put in order, then the mask
ApplyOoc ==
  /\ probe.fn = "ooc" /\ ~probe.applied
  /\ LET lcl == Min(probe.lcl, probe.ucl)
         ucl == Max(probe.lcl, probe.ucl)
     IN  probe' = [probe EXCEPT !.applied = TRUE, !.lcl = lcl, !.ucl = ucl,
                     !.ooc_ids = OocIds(probe.vals, ucl, lcl)]
  /\ UNCHANGED <<data, sigma_store, cfg, run, call, batch, disk, series>>

\* sigma_to_risk(sigma)
ApplyRisk ==
  /\ probe.fn = "risk" /\ ~probe.applied
  /\ probe' = [probe EXCEPT !.applied = TRUE, !.risk_level = sigma_to_risk(probe.sigma)]
  /\ UNCHANGED <<data, sigma_store, cfg, run, call, batch, disk, series>>

\* lines 97 and 142-147: the sigma level of the chart values, then its class
ApplyMetrics ==
  /\ probe.fn = "metrics" /\ ~probe.applied
  /\ LET lsl == Min(probe.lsl, probe.usl)
         usl == Max(probe.lsl, probe.usl)
         sigma_level == SigmaLevel(probe.vals, usl, lsl)
     IN  probe' = [probe EXCEPT !.applied = TRUE, !.lsl = lsl, !.usl = usl,
                     !.sigma = sigma_level, !.risk_level = sigma_to_risk(sigma_level)]
  /\ UNCHANGED <<data, sigma_store, cfg, run, call, batch, disk, series>>

NextMetrics == ApplyOoc \/ ApplyRisk \/ ApplyMetrics

SpecMetrics == InitMetrics /\ [][NextMetrics]_vars

\* C17: the out-of-control list is the increasing list of exactly the
\* 1-indexed positions whose value is above UCL or below LCL: a value equal
\* to a limit is not listed, a value one unit beyond a limit is, and the list
\* is empty when no value is beyond a limit.
C17_OocPositions ==
  (probe.fn = "ooc" /\ probe.applied) =>
    LET ids == probe.ooc_ids
        listed == {ids[i] : i \in 1..Len(ids)}
    IN  /\ \A i \in 1..(Len(ids) - 1) : ids[i] < ids[i + 1]
        /\ listed = {j \in 1..Len(probe.vals) :
                       probe.vals[j] > probe.ucl \/ probe.vals[j] < probe.lcl}
        /\ \A j \in 1..Len(probe.vals) :
             /\ probe.vals[j] \in {probe.ucl, probe.lcl} => j \notin listed
             /\ probe.vals[j] \in {probe.ucl + 1, probe.lcl - 1} => j \in listed
        /\ (\A j \in 1..Len(probe.vals) :
              probe.vals[j] >= probe.lcl /\ probe.vals[j] <= probe.ucl) => ids = <<>>

\* a value on UCL was left out and the value one unit above it was listed
C17_Witness ==
  /\ probe.fn = "ooc" /\ probe.applied
  /\ Len(probe.vals) = 2
  /\ probe.vals[1] = probe.ucl /\ probe.vals[2] = probe.ucl + 1
  /\ probe.lcl < probe.ucl
  /\ probe.ooc_ids = <<2>>

\* C18: every sigma level has exactly one risk class, with inclusive lower
\* bounds: below 3.0 High risk, [3.0, 4.0) Poor, [4.0, 4.5) Moderate,
\* [4.5, 5.0) Acceptable, [5.0, 6.0) Good, 6.0 and above Excellent; the
\* non-finite level, which is the level of chart values whose standard
\* deviation is not above 0, has the class N/A.
C18_RiskClasses ==
  (probe.fn \in {"risk", "metrics"} /\ probe.applied) =>
    LET m == probe.sigma.milli
        r == probe.risk_level
    IN  /\ probe.sigma.inf <=> r = "N/A"
        /\ ~probe.sigma.inf =>
             /\ r = "High risk" <=> m < 3000
             /\ r = "Poor" <=> (3000 <= m /\ m < 4000)
             /\ r = "Moderate" <=> (4000 <= m /\ m < 4500)
             /\ r = "Acceptable" <=> (4500 <= m /\ m < 5000)
             /\ r = "Good" <=> (5000 <= m /\ m < 6000)
             /\ r = "Excellent" <=> 6000 <= m
        /\ (probe.fn = "metrics"
            /\ \A i \in 1..Len(probe.vals) : probe.vals[i] = probe.vals[1])
             => probe.sigma.inf /\ r = "N/A"

\* the level 3.000 itself has been classified, as Poor
C18_Witness ==
  /\ probe.fn = "risk" /\ probe.applied
  /\ ~probe.sigma.inf /\ probe.sigma.milli = 3000
  /\ probe.risk_level = "Poor"

\* C19: no stored observation is discarded uncharted: every observation of
\* the bucket that a charting run clears is in that run's chart input, either
\* among the history values the run took (one of the first Len(hist_vals)
\* observations of other weeks) or, for an observation of the run's own
\* week, as a row of the current file with the same id and value.
C19_NoObservationLost ==
  [][run'.outcome = "chart" =>
       \A j \in 1..Len(PreBucket) :
         \/ /\ PreBucket[j].week # run'.week
            /\ run'.consulted
            /\ Len(Eligible(SubSeq(PreBucket, 1, j), Some(run'.week))) <= Len(run'.hist_vals)
         \/ /\ PreBucket[j].week = run'.week
            /\ \E i \in 1..Len(run'.cur_ids) :
                 /\ run'.cur_ids[i] = PreBucket[j].id
                 /\ run'.cur_vals[i] = PreBucket[j].value]_vars

\* C20: a run that repeats a deferred run (same product, feature and week,
\* same rows in the source file, same threshold and strategy) defers again
\* with the same history and the same total count, and leaves the memory
\* store and the sigma cache exactly as the first run left them.
C20_DeferredRerun ==
  [][run'.rerun =>
       /\ run'.outcome = "deferred"
       /\ run'.hist_vals = run.hist_vals /\ run'.hist_weeks = run.hist_weeks
       /\ Len(run'.hist_vals) + Len(run'.cur_vals) = Len(run.hist_vals) + Len(run.cur_vals)
       /\ data' = data
       /\ sigma_store' = sigma_store]_vars

\* a deferred run has been repeated over a bucket that holds both its own
\* week's observations and history of another week
C20_Witness ==
  /\ run.rerun /\ run.outcome = "deferred"
  /\ run.hist_vals # <<>>
  /\ \E j \in 1..Len(RunBucket) : RunBucket[j].week = run.week

\* ---------------------------------------------------------------- weekly series
\* enough weeks for a series as long as the largest threshold
ProgressWeeks == 1..MaxThreshold

\* the next run of the series: a week no earlier run of it had, a source
\* file that exists and has at least one row
WeeklyRun ==
  \E p \in Products, f \in Features, w \in ProgressWeeks \ series.weeks,
     rows \in FileRows, lims \in FileLimits :
    /\ RunImrSpc(TRUE, p, f, w, rows, lims)
    /\ series' = [weeks |-> series.weeks \cup {w},
                  deferred |-> IF run'.outcome = "deferred" THEN series.deferred + 1 ELSE 0]
    /\ UNCHANGED <<cfg, call, batch, disk, probe>>

NextProgress == WeeklyRun

\* what a run does to the series: one more week, a new count of deferrals
SeriesAdvance ==
  \E w \in ProgressWeeks \ series.weeks, d \in 0..MaxThreshold :
    series' = [weeks |-> series.weeks \cup {w}, deferred |-> d]

\* the series goes on as long as a week is left: every step is a WeeklyRun,
\* and a step that advances the series is eventually taken while one can be
SpecProgress == InitRun /\ [][NextProgress]_vars /\ WF_series(SeriesAdvance)

\* C21: in a series of runs of one key for pairwise distinct weeks, each with
\* an existing source file of at least one observation, a chart is eventually
\* produced; there are never T deferred runs in a row, so the chart comes
\* with the T-th run at the latest; and every deferred run leaves more
\* observations stored than it found.
C21_AccumulationProgress ==
  /\ <>(run.outcome = "chart")
  /\ [](series.deferred < cfg.threshold)
  /\ [][run'.outcome = "deferred" => Len(PostBucket) > Len(PreBucket)]_vars

\* a chart has been produced by the T-th run of a series, from the
\* observations of T - 1 deferred weeks and the current one
C21_Witness ==
  /\ run.outcome = "chart"
  /\ run.threshold = MaxThreshold
  /\ Cardinality({run.hist_weeks[i] : i \in 1..Len(run.hist_weeks)}) = run.threshold - 1
  /\ Len(run.cur_vals) = 1

====
